---- MODULE Spec2Model ----
(***************************************************************************)
(* Control logic of the INI temporal-mean-rate simulator backend           *)
(* (snntoolbox/simulation/target_simulators/                               *)
(*  INI_temporal_mean_rate_target_sim.py, class SNN).                      *)
(*                                                                         *)
(* Real-valued tensors are held as integer numerators over the common      *)
(* denominator Denom, one input element per sample.  The spiking network   *)
(* itself (predict_on_batch) and the event-camera source are external:     *)
(* their per-step results are drawn from small sets.                       *)
(***************************************************************************)
EXTENDS Integers, Sequences, FiniteSets, TLC

\* ------------------------------------------------------------------ bounds
MaxSteps == 3       \* largest configured number of time steps
BatchSize == 2      \* samples per batch
NumClasses == 2     \* classification outputs
MaxBudget == 2      \* largest spike budget (both budgets), per sample
Denom == 2          \* tensors are numerators over this denominator

\* Width of the bounding-box output (np.zeros((batch_size, 4, T))).
NumBB == 4

Batch == 1..BatchSize
Classes == 1..NumClasses
Boxes == 1..NumBB

\* Optional values are sequences: <<>> when absent, <<v>> when present.
\* Unset is config.getint('input', 'max_num_input_spikes', fallback='')
\* for an option that is not set.
Unset == <<>>
RBS == "Reset by subtraction"
ResetPolicies == {RBS, "Reset to zero"}
InputModes == {"direct", "poisson", "aedat"}

\* Instrumentation buffers of AbstractSNN that simulate fills.
Buffers ==
  {"spiketrains_n_b_l_t", "mem_n_b_l_t", "input_b_l_t",
   "synaptic_operations_b_t", "neuron_operations_b_t"}
RequestedSets == {{}, Buffers}
None == <<>>
Unbound == <<>>

\* A tensor with value a for the first sample and b for all others.
Spread(a, b) == [i \in Batch |-> IF i = 1 THEN a ELSE b]
Zeros == [i \in Batch |-> 0]

\* Input frames x_b_l (numerators over Denom).
XPairs == {<<0, 0>>, <<1, 0>>, <<3, -1>>, <<-1, -1>>}
Inputs == {Spread(p[1], p[2]) : p \in XPairs}

\* Frames the event-camera source may deliver.
AedatFrames == {Zeros, Spread(Denom, 0)}

\* Raw classification outputs of one forward pass: [sample][class].
OutSilent == [i \in Batch |-> [c \in Classes |-> 0]]
OutFirst ==
  [i \in Batch |-> [c \in Classes |->
      IF i = 1 THEN (IF c = NumClasses THEN 2 ELSE 0)
               ELSE (IF c = 1 THEN -1 ELSE 0)]]
OutAll ==
  [i \in Batch |-> [c \in Classes |->
      IF i = 1 THEN (IF c = 1 THEN 1 ELSE 0) ELSE 1]]

\* Raw bounding-box outputs of one forward pass: [sample][coordinate].
BoxSilent == [i \in Batch |-> [k \in Boxes |-> 0]]
BoxLast ==
  [i \in Batch |-> [k \in Boxes |->
      IF i = BatchSize /\ k = 3 THEN 1 ELSE (IF k = 1 THEN -1 ELSE 0)]]

\* What predict_on_batch may return in one step.  Without the detector
\* only the classification part exists.
ForwardResults ==
  { [out |-> OutSilent, box |-> BoxSilent],
    [out |-> OutFirst, box |-> BoxLast],
    [out |-> OutAll, box |-> BoxSilent] }

\* ------------------------------------------------------------- variables
\* Configuration and the batch handed to simulate (fixed per behaviour).
VARIABLES _dt, _num_timesteps, _detector, _is_early_stopping, input_mode,
          max_num_input_spikes, reset_policy, _num_poisson_events_per_sample,
          rescale_fac, log_keys, x_b_l

\* config.getboolean('cell', 'bias_relaxation'), and the trained bias the
\* parsed model holds for its output layer.
VARIABLES bias_relaxation, parsed_bias

\* State of a simulate call.
VARIABLES pc, input_b_l, num_timesteps, x_accum, t, sim_step_int,
          output_b_l_t, output_b_bb_t, _input_spikecount, time2output,
          bb_spike_rate_b, clean_guesses_b, buffers, time, n_forward,
          remaining_events, ret, raised, out_spikes_t

\* layer_time[k] is the time attribute of snn.layers[k - 1] (absent for a
\* layer that tracks no time), seen_times the times at which the forward
\* passes of the current call ran, warned whether the call printed the
\* leftover-input warning, calls the simulate calls begun so far, and
\* prev_spikecount the input-spike counter the previous call left behind.
VARIABLES layer_time, seen_times, warned, calls, prev_spikecount

\* Results of separate _get_timestep_at_spikecount calls: <<budget, steps>>.
VARIABLES est_log

\* State of the graph builder, compile and load.  last_call and tick record
\* the latest call and its outcome; copies counts, per canonical name of
\* the parameter map, the spiking-graph parameters it was copied into.
\* last_added names the layer of the latest successful add_layer call.
VARIABLES _spiking_layers, _input_images, _binary_activation, snn,
          parameter_map, count, copies, last_call, last_added, tick

\* bias and b0 are the two bias slots of the output layer (b0 absent until
\* it is written); compiles counts the compile calls that built a model,
\* rescales the times line 143 has rewritten the bias.
VARIABLES bias, b0, compiles, rescales

buildvars == <<_spiking_layers, _input_images, _binary_activation, snn,
               parameter_map, count, copies, last_call, last_added, tick,
               bias, b0, compiles, rescales>>

cfgvars == <<_dt, _num_timesteps, _detector, _is_early_stopping, input_mode,
             max_num_input_spikes, reset_policy,
             _num_poisson_events_per_sample, rescale_fac, log_keys, x_b_l,
             bias_relaxation, parsed_bias>>
simvars == <<pc, input_b_l, num_timesteps, x_accum, t, sim_step_int,
             output_b_l_t, output_b_bb_t, _input_spikecount, time2output,
             bb_spike_rate_b, clean_guesses_b, buffers, time, n_forward,
             remaining_events, ret, raised, out_spikes_t,
             layer_time, seen_times, warned, calls, prev_spikecount>>

_poisson_input == input_mode = "poisson"
_is_aedat_input == input_mode = "aedat"

Steps == 0..(_num_timesteps - 1)

\* ------------------------------------------------------------- helpers
RECURSIVE SumOver(_, _)
SumOver(f, S) ==
  IF S = {} THEN 0
  ELSE LET e == CHOOSE e \in S : TRUE IN f[e] + SumOver(f, S \ {e})

Max(S) == CHOOSE m \in S : \A n \in S : n <= m
Min2(a, b) == IF a <= b THEN a ELSE b
Abs(n) == IF n < 0 THEN -n ELSE n
Sign(n) == IF n > 0 THEN 1 ELSE IF n < 0 THEN -1 ELSE 0

\* np.count_nonzero
CountNonzero(a) == Cardinality({i \in DOMAIN a : a[i] # 0})

\* np.floor of a value held as a numerator over Denom
Floor(n) == n \div Denom

\* ------------------------------------------- _get_timestep_at_spikecount
\* The early returns: option unset, or not direct input, or another reset.
EstimatorAppliesAnyReset ==
  /\ max_num_input_spikes # Unset
  /\ ~(_is_aedat_input \/ _poisson_input)
EstimatorApplies ==
  /\ max_num_input_spikes # Unset
  /\ ~(_is_aedat_input \/ _poisson_input \/ reset_policy # RBS)

\* x_accum += x
XAccumNext(acc, x) == [i \in Batch |-> acc[i] + x[i]]

\* spikecount = np.sum(np.floor(x_accum))
Spikecount(acc) == SumOver([i \in Batch |-> Floor(acc[i])], Batch)

\* max_spikecount_norm = max_spikecount * self.batch_size
MaxSpikecountNorm == max_num_input_spikes[1] * BatchSize

\* if spikecount > max_spikecount_norm
BudgetExceeded(acc) == Spikecount(acc) > MaxSpikecountNorm

\* return min(t, self._num_timesteps)
EstReturnUncapped(tt, n) == tt
EstReturnOffByOne(tt, n) == Min2(tt + 1, n)
EstReturnValue(tt, n) == Min2(tt, n)

\* The loop leaves through its return for every input that can leave it
\* at all within this many iterations: with a positive element sum the
\* floor-sum passes any limit up to MaxBudget * BatchSize by then, and
\* otherwise it repeats (or falls) with period Denom.
EstCap == Denom * (MaxBudget * BatchSize + BatchSize) + 1

\* ---------------------------------------------------------------- simulate
ZeroOut == [i \in Batch |-> [c \in Classes |-> [s \in Steps |-> 0]]]
ZeroBox == [i \in Batch |-> [k \in Boxes |-> [s \in Steps |-> 0]]]

\* Line 167: self._input_spikecount = 0
SpikecountCarried(old) == old
SpikecountAtStart(old) == 0

\* Lines 159-168: buffers and counters set up once the step budget is known.
Allocate(nt) ==
  /\ num_timesteps' = nt
  /\ output_b_l_t' = ZeroOut
  /\ output_b_bb_t' = IF _detector THEN ZeroBox ELSE Unbound
  /\ _input_spikecount' = SpikecountAtStart(_input_spikecount)
  /\ time2output' = nt
  /\ sim_step_int' = 0
  /\ pc' = IF nt > 0 THEN "Stepping" ELSE "Finalizing"

\* simulate up to the call of the estimator, and the estimator's early
\* returns.  The locals of an earlier call are gone; what the object and
\* its layers hold stays.
BeginBody ==
  /\ input_b_l' = [i \in Batch |-> x_b_l[i] * _dt]
  /\ IF EstimatorApplies
     THEN /\ pc' = "Estimating"
          /\ x_accum' = Zeros
          /\ t' = 0
          /\ UNCHANGED <<num_timesteps, output_b_l_t, output_b_bb_t,
                         _input_spikecount, time2output, sim_step_int>>
     ELSE /\ Allocate(_num_timesteps)
          /\ UNCHANGED <<x_accum, t>>
  /\ bb_spike_rate_b' = Unbound
  /\ clean_guesses_b' = Unbound
  /\ n_forward' = 0
  /\ remaining_events' = 0
  /\ ret' = Unbound
  /\ raised' = ""
  /\ out_spikes_t' = <<>>
  /\ seen_times' = <<>>
  /\ warned' = FALSE
  /\ calls' = calls + 1
  /\ prev_spikecount' = _input_spikecount
  /\ UNCHANGED <<buffers, time, layer_time, est_log>>
  /\ UNCHANGED cfgvars
  /\ UNCHANGED buildvars

\* The first simulate call on the object.
SimulateBegin == pc = "idle" /\ BeginBody

\* A further simulate call after one has ended.
MaxCalls == 2
SimulateAgain ==
  /\ pc \in {"Done", "Error"}
  /\ calls < MaxCalls
  /\ BeginBody

\* One iteration of the estimator's while loop inside simulate.
EstIter ==
  /\ pc = "Estimating"
  /\ t < EstCap
  /\ x_accum' = XAccumNext(x_accum, input_b_l)
  /\ IF BudgetExceeded(x_accum')
     THEN /\ Allocate(EstReturnValue(t, _num_timesteps))
          /\ t' = t
     ELSE /\ t' = t + 1
          /\ UNCHANGED <<pc, num_timesteps, output_b_l_t, output_b_bb_t,
                         _input_spikecount, time2output, sim_step_int>>
  /\ UNCHANGED <<input_b_l, bb_spike_rate_b, clean_guesses_b, buffers, time,
                 n_forward, remaining_events, ret, raised, out_spikes_t,
                 layer_time, seen_times, warned, calls, prev_spikecount,
                 est_log>>
  /\ UNCHANGED cfgvars
  /\ UNCHANGED buildvars

\* --------------------------------------------------------- input encoder
\* Spike indicators the uniform draws can produce, get_poisson_frame_batch
\* lines 328-330: element i spikes iff r * rescale_fac * max(x) <= |x[i]|
\* for its draw r in [0, 1).
PoissonSpikes(x) ==
  LET m == rescale_fac * Max({x[i] : i \in Batch})
  IN  {sp \in [Batch -> {0, 1}] :
         \A i \in Batch : (m <= 0 \/ Abs(x[i]) >= m) => sp[i] = 1}

\* if self._input_spikecount < self._num_poisson_events_per_sample
\*         or self._num_poisson_events_per_sample < 0
PoissonGuardInclusive(cnt, budget) == cnt <= budget \/ budget < 0
PoissonGuard(cnt, budget) == cnt < budget \/ budget < 0

\* get_poisson_frame_batch for spike indicators sp: <<input_b_l, counter>>.
PoissonFrame(x, sp, cnt) ==
  IF PoissonGuard(cnt, _num_poisson_events_per_sample)
  THEN << [i \in Batch |-> sp[i] * Max({x[j] : j \in Batch}) * Sign(x[i])],
          cnt + (CountNonzero(sp) \div BatchSize) >>
  ELSE << Zeros, cnt >>

\* ------------------------------------------------------- one loop iteration
\* output_b_l_t[:, :, sim_step_int] = out_spikes > 0
RecordRaw(v) == v
RecordSpike(v) == IF v > 0 THEN 1 ELSE 0

WriteOut(buf, out, s) ==
  [i \in Batch |-> [c \in DOMAIN buf[i] |->
      [buf[i][c] EXCEPT ![s] = RecordSpike(out[i][c])]]]

\* np.sum(output, 2)
SumT(buf) ==
  [i \in Batch |-> [c \in DOMAIN buf[i] |-> SumOver(buf[i][c], Steps)]]

\* np.argmax(row): the first index holding the maximum
ArgMax(row) ==
  CHOOSE c \in DOMAIN row :
    /\ \A d \in DOMAIN row : row[d] <= row[c]
    /\ \A d \in DOMAIN row : d < c => row[d] < row[c]

\* Lines 238-242: undecided_b, guesses_b, clean_guesses_b.  Class indices
\* are 1-based here, the sentinel is -1.
Undecided(sums, i) == SumOver(sums[i], Classes) = 0
CleanGuessArgMaxOnly(sums, i) == ArgMax(sums[i])
CleanGuess(sums, i) == IF Undecided(sums, i) THEN -1 ELSE ArgMax(sums[i])
CleanGuesses(buf) == [i \in Batch |-> CleanGuess(SumT(buf), i)]

\* np.max(bb_spike_sums_b)
MaxBox(sums) == Max({sums[i][k] : i \in Batch, k \in Boxes})

\* Lines 254-256.  sim_step is (sim_step_int + 1) * dt.
Time2Output(t2o, nt, sums, sim_step) ==
  IF t2o = nt /\ MaxBox(sums) > 0
  THEN nt - ((sim_step \div _dt) - 1)
  ELSE t2o

\* The buffers a simulator object holds for a set of requested keys: the
\* buffer of a requested key is allocated and empty, the others are None.
InitLogVars(keys) ==
  [b \in Buffers |-> IF b \in keys THEN <<{}>> ELSE None]

\* Line 224-225: the input history is written when its key is among the log
\* keys, whether or not the buffer is there; a None buffer cannot be indexed.
RecordFails(bufs) == "input_b_l_t" \in log_keys /\ bufs["input_b_l_t"] = None

\* Lines 202-235: the input history gets its slot of this step when its key
\* is among the log keys, every other buffer when it is not None.
RecordAll(bufs, s) ==
  [b \in Buffers |->
     <<(IF bufs[b] = None THEN {} ELSE bufs[b][1]) \cup {s}>>]
Record(bufs, s) ==
  [b \in Buffers |->
     IF bufs[b] = None THEN None
     ELSE IF b = "input_b_l_t" /\ b \notin log_keys THEN bufs[b]
     ELSE <<bufs[b][1] \cup {s}>>]

\* if self._is_early_stopping and np.count_nonzero(input_b_l) == 0
EarlyStopInverted(inp) == _is_early_stopping /\ CountNonzero(inp) # 0
EarlyStop(inp) == _is_early_stopping /\ CountNonzero(inp) = 0

\* set_time, lines 354-356: every layer but the first that has a time
\* attribute gets the new time.
SetTimeNoCheck(lt, tm) ==
  [k \in DOMAIN lt |-> IF k = 1 THEN lt[k] ELSE <<tm>>]
SetTime(lt, tm) ==
  [k \in DOMAIN lt |->
     IF k = 1 THEN lt[k] ELSE IF lt[k] # None THEN <<tm>> ELSE lt[k]]

\* The time a forward pass runs at: that of the layers that track time.
NetworkTime(lt) == lt[CHOOSE k \in DOMAIN lt : k > 1 /\ lt[k] # None][1]

SimStep ==
  /\ pc = "Stepping"
  /\ time' = (sim_step_int + 1) * _dt
  /\ layer_time' = SetTime(layer_time, time')
  /\ \E sp \in PoissonSpikes(x_b_l), fr \in AedatFrames :
       \* a choice that is not used by the mode is fixed
       /\ _poisson_input \/ sp = [i \in Batch |-> 1]
       /\ _is_aedat_input \/ fr = Zeros
       /\ LET pf == PoissonFrame(x_b_l, sp, _input_spikecount)
          IN /\ input_b_l' = IF _poisson_input THEN pf[1]
                             ELSE IF _is_aedat_input THEN fr
                             ELSE input_b_l
             /\ _input_spikecount' = IF _poisson_input THEN pf[2]
                                     ELSE _input_spikecount
  /\ IF EarlyStop(input_b_l')
     THEN \* break
          /\ pc' = "Finalizing"
          /\ UNCHANGED <<sim_step_int, output_b_l_t, output_b_bb_t,
                         time2output, bb_spike_rate_b, clean_guesses_b,
                         buffers, n_forward, out_spikes_t, seen_times,
                         raised>>
     ELSE /\ n_forward' = n_forward + 1
          /\ seen_times' = Append(seen_times, NetworkTime(layer_time'))
          /\ \E res \in ForwardResults :
               /\ out_spikes_t' = Append(out_spikes_t, res.out)
               /\ output_b_l_t' =
                    WriteOut(output_b_l_t, res.out, sim_step_int)
               /\ output_b_bb_t' =
                    IF _detector
                    THEN WriteOut(output_b_bb_t, res.box, sim_step_int)
                    ELSE output_b_bb_t
          /\ buffers' = IF RecordFails(buffers) THEN buffers
                         ELSE Record(buffers, sim_step_int)
          /\ raised' = IF RecordFails(buffers) THEN "TypeError" ELSE raised
          /\ clean_guesses_b' = CleanGuesses(output_b_l_t')
          /\ IF _detector
             THEN /\ time2output' =
                       Time2Output(time2output, num_timesteps,
                                   SumT(output_b_bb_t'), time')
                  /\ bb_spike_rate_b' =
                       <<[sums |-> SumT(output_b_bb_t'), div |-> time2output']>>
             ELSE UNCHANGED <<time2output, bb_spike_rate_b>>
          /\ sim_step_int' = sim_step_int + 1
          /\ pc' = IF RecordFails(buffers) THEN "Error"
                   ELSE IF sim_step_int + 1 < num_timesteps
                   THEN "Stepping" ELSE "Finalizing"
  /\ UNCHANGED <<num_timesteps, x_accum, t, remaining_events, ret,
                 warned, calls, prev_spikecount, est_log>>
  /\ UNCHANGED cfgvars
  /\ UNCHANGED buildvars

\* np.cumsum(output_b_l_t, 2)
CumSum(buf) ==
  [i \in Batch |-> [c \in DOMAIN buf[i] |-> [s \in Steps |->
      SumOver(buf[i][c], {u \in Steps : u <= s})]]]

\* if remaining_events > 0: print the warning
WarnsAtZero(rem) == rem >= 0
Warns(rem) == rem > 0

\* Lines 259-275: the leftover-input warning and the return.
Finalize ==
  /\ pc = "Finalizing"
  /\ \E left \in 0..1 :
       /\ _is_aedat_input \/ left = 0
       /\ remaining_events' =
            IF _is_aedat_input THEN left
            ELSE IF _poisson_input /\ _num_poisson_events_per_sample > 0
            THEN _num_poisson_events_per_sample - _input_spikecount
            ELSE 0
  /\ warned' = Warns(remaining_events')
  /\ IF _detector /\ bb_spike_rate_b = Unbound
     THEN \* bb_spike_rate_b was never assigned
          /\ pc' = "Error"
          /\ raised' = "UnboundLocalError"
          /\ ret' = Unbound
     ELSE /\ pc' = "Done"
          /\ raised' = raised
          /\ ret' = <<[cls |-> CumSum(output_b_l_t), bb |-> bb_spike_rate_b]>>
  /\ UNCHANGED <<input_b_l, num_timesteps, x_accum, t, sim_step_int,
                 output_b_l_t, output_b_bb_t, _input_spikecount, time2output,
                 bb_spike_rate_b, clean_guesses_b, buffers, time, n_forward,
                 out_spikes_t, layer_time, seen_times, calls,
                 prev_spikecount, est_log>>
  /\ UNCHANGED cfgvars
  /\ UNCHANGED buildvars

\* ------------------------------------------------------- graph builder
\* The parsed source model: its layers in order, layers[0] the input.
\* activation is the name of the layer's activation function, "" if the
\* layer has none.
ParsedLayers ==
  << [name |-> "input", type |-> "InputLayer", inbound |-> <<>>,
      activation |-> ""],
     [name |-> "0Conv2D", type |-> "Conv2D", inbound |-> <<"input">>,
      activation |-> "binary_tanh"],
     [name |-> "1Conv2D", type |-> "Conv2D", inbound |-> <<"0Conv2D">>,
      activation |-> "relu"],
     [name |-> "2MaxPooling2D", type |-> "MaxPooling2D",
      inbound |-> <<"1Conv2D">>, activation |-> ""],
     [name |-> "3MaxPooling2D", type |-> "MaxPooling2D",
      inbound |-> <<"0Conv2D">>, activation |-> ""],
     [name |-> "4Concatenate", type |-> "Concatenate",
      inbound |-> <<"2MaxPooling2D", "3MaxPooling2D">>, activation |-> ""],
     [name |-> "class_label", type |-> "Dense",
      inbound |-> <<"4Concatenate">>, activation |-> "softmax"],
     [name |-> "bounding_box", type |-> "Dense",
      inbound |-> <<"4Concatenate">>, activation |-> "linear"],
     [name |-> "5Lambda", type |-> "Lambda", inbound |-> <<"input">>,
      activation |-> ""] >>

Layers == {ParsedLayers[k] : k \in DOMAIN ParsedLayers}

\* getattr(self.sim, 'Spike' + get_type(layer)): the types the simulator
\* module has a spiking class for.
SpikeTypes == {"Dense", "Conv2D", "MaxPooling2D", "Concatenate"}
HasSpikeClass(type) == type \in SpikeTypes

\* 'Conv' in layer.name, 'MaxPool' in layer.name, 'binary' in
\* layer.activation.__name__
NameHasConv(name) == name \in {"0Conv2D", "1Conv2D"}
NameHasMaxPool(name) == name \in {"2MaxPooling2D", "3MaxPooling2D"}
IsBinary(activation) == activation \in {"binary_tanh", "binary_sigmoid"}

\* The registry is a dict: its keys in insertion order.
Names(reg) == {reg[k].name : k \in DOMAIN reg}
Lookup(reg, name) == reg[CHOOSE k \in DOMAIN reg : reg[k].name = name]

\* self._spiking_layers[name] = value
DictSet(reg, name, value) ==
  IF name \in Names(reg)
  THEN [k \in DOMAIN reg |-> IF reg[k].name = name THEN value ELSE reg[k]]
  ELSE Append(reg, value)

Range(seq) == {seq[k] : k \in DOMAIN seq}

\* Line 63: every inbound name must be a key of the registry.
InboundRegistered(layer, reg) == Range(layer.inbound) \subseteq Names(reg)

\* Lines 58 and 63: the two lookups that raise before anything is changed.
AddLayerFailsTypeOnly(layer, reg) == ~HasSpikeClass(layer.type)
AddLayerFails(layer, reg) ==
  ~HasSpikeClass(layer.type) \/ ~InboundRegistered(layer, reg)

AddLayerError(layer) ==
  IF ~HasSpikeClass(layer.type) THEN "AttributeError" ELSE "KeyError"

\* Lines 72-73: the hint after a layer with a binary activation.
HintAfterConv(layer, hint) ==
  IF NameHasConv(layer.name) /\ IsBinary(layer.activation)
  THEN <<layer.activation>> ELSE hint

\* Lines 75-77: a pooling layer takes a pending hint.
TakesHint(layer, hint) == NameHasMaxPool(layer.name) /\ hint # None

\* Line 84: str(layer_kwargs.pop('activation', None))
ActivationStr(layer, hint) ==
  IF TakesHint(layer, hint) THEN hint[1]
  ELSE IF layer.activation = "" THEN "None" ELSE layer.activation

Call(op, name, result, ext) ==
  [op |-> op, layer |-> name, result |-> result, ext |-> ext]

add_input_layer ==
  /\ snn = None
  /\ _input_images' = <<"Input">>
  /\ _spiking_layers' =
       DictSet(_spiking_layers, ParsedLayers[1].name,
               [name |-> ParsedLayers[1].name, activation_str |-> "None",
                inbound |-> <<>>])
  /\ last_call' = Call("add_input_layer", "", "ok", "")
  /\ tick' = 1 - tick
  /\ UNCHANGED <<_binary_activation, snn, parameter_map, count, copies,
                 last_added, bias, b0, compiles, rescales>>
  /\ UNCHANGED <<cfgvars, simvars, est_log>>

add_layer ==
  /\ snn = None
  /\ \E layer \in Layers :
       IF AddLayerFails(layer, _spiking_layers)
       THEN /\ last_call' =
                 Call("add_layer", layer.name, AddLayerError(layer), "")
            /\ UNCHANGED <<_spiking_layers, _binary_activation, last_added>>
       ELSE LET hint == HintAfterConv(layer, _binary_activation)
            IN /\ _binary_activation' =
                    IF TakesHint(layer, hint) THEN None ELSE hint
               /\ _spiking_layers' =
                    DictSet(_spiking_layers, layer.name,
                            [name |-> layer.name,
                             activation_str |-> ActivationStr(layer, hint),
                             inbound |-> layer.inbound])
               /\ last_call' = Call("add_layer", layer.name, "ok", "")
               /\ last_added' = layer.name
  /\ tick' = 1 - tick
  /\ UNCHANGED <<_input_images, snn, parameter_map, count, copies,
                 bias, b0, compiles, rescales>>
  /\ UNCHANGED <<cfgvars, simvars, est_log>>

\* ------------------------------------------------------------- compile
\* Parameter names: a canonical name and the counter the framework added.
MaxWeights == 2
ParsedWeightNames ==
  {[canon |-> c, counter |-> 0] : c \in {"0Conv2D/kernel", "class_label/bias"}}
SnnWeightNames ==
  {[canon |-> "0Conv2D/kernel", counter |-> 0],
   [canon |-> "0Conv2D/kernel", counter |-> 1],
   [canon |-> "class_label/bias", counter |-> 1]}

SeqsUpTo(S, n) == UNION {[1..m -> S] : m \in 0..n}

\* self.parsed_model.weights (never empty) and self.snn.weights
ParsedWeightLists == SeqsUpTo(ParsedWeightNames, MaxWeights) \ {<<>>}
SnnWeightLists == SeqsUpTo(SnnWeightNames, MaxWeights)

\* remove_name_counter(p.name)
RemoveNameCounter(p) == p.canon

\* 'class_label' in name or 'bounding_box' in name
IsOutputName(name) == name \in {"class_label", "bounding_box"}

\* Lines 102-105
Outputs(reg) ==
  SelectSeq([k \in DOMAIN reg |-> reg[k].name], IsOutputName)

\* Lines 125-127: the keys of parameter_map
ParameterMap(pw) == {RemoveNameCounter(pw[k]) : k \in DOMAIN pw}

\* Lines 129-134
Count(sw, pmap) ==
  Cardinality({k \in DOMAIN sw : RemoveNameCounter(sw[k]) \in pmap})
Copies(sw, pmap) ==
  [n \in pmap |->
     Cardinality({k \in DOMAIN sw : RemoveNameCounter(sw[k]) = n})]

\* assert count == len(parameter_map)
TransferAsserted(cnt, pmap) == cnt = Cardinality(pmap)

\* The bias variable of the output layer, as the parameter map names it.
BiasName == "class_label/bias"

\* The layer's bias variable is among snn.weights.
HasBias(sw) == \E k \in DOMAIN sw : RemoveNameCounter(sw[k]) = BiasName

\* Lines 130-133 for the bias variable: set to the trained value when its
\* name is a key of the map.
TransferBiasSkipped(old, sw, pmap) == old
TransferBias(old, sw, pmap) ==
  IF HasBias(sw) /\ BiasName \in pmap THEN parsed_bias ELSE old

\* Line 142: get_value(layer.bias) * self._dt
RescaleBias(b) == b * _dt

\* The body of compile.  The copies are made before the assertion, the
\* biases are rescaled after it.
CompileBody ==
  /\ IF _input_images = None \/ Outputs(_spiking_layers) = <<>>
     THEN \* keras.models.Model has no input or no output to build from
          /\ last_call' = Call("compile", "", "ValueError", "")
          /\ UNCHANGED <<snn, parameter_map, count, copies, bias, b0,
                         compiles, rescales>>
     ELSE \E pw \in ParsedWeightLists, sw \in SnnWeightLists :
            /\ snn' = <<[origin |-> "compile",
                         outputs |-> Outputs(_spiking_layers)]>>
            /\ parameter_map' = ParameterMap(pw)
            /\ count' = Count(sw, parameter_map')
            /\ copies' = Copies(sw, parameter_map')
            /\ compiles' = compiles + 1
            /\ LET copied == TransferBias(bias, sw, parameter_map')
               IN IF TransferAsserted(count', parameter_map')
                  THEN /\ last_call' = Call("compile", "", "ok", "")
                       /\ bias' = IF HasBias(sw) THEN RescaleBias(copied)
                                  ELSE copied
                       /\ b0' = IF HasBias(sw) /\ bias_relaxation
                                THEN <<bias'>> ELSE b0
                       /\ rescales' = IF HasBias(sw) THEN rescales + 1
                                      ELSE rescales
                  ELSE /\ last_call' =
                            Call("compile", "", "AssertionError", "")
                       /\ bias' = copied
                       /\ UNCHANGED <<b0, rescales>>
  /\ tick' = 1 - tick
  /\ UNCHANGED <<_spiking_layers, _input_images, _binary_activation,
                 last_added>>
  /\ UNCHANGED <<cfgvars, simvars, est_log>>

\* compile on an object that has no model yet.
compile == snn = None /\ CompileBody

\* compile called again on an object that has a model.
MaxCompiles == 2
recompile == snn # None /\ compiles < MaxCompiles /\ CompileBody

\* ----------------------------------------------------------------- load
\* What keras.models.load_model may do with the file.
LoadModelOutcomes == {"ok", "KeyError", "OSError"}

\* Lines 298-302: only KeyError is turned into NotImplementedError.
LoadResult(ext) == IF ext = "KeyError" THEN "NotImplementedError" ELSE ext

load ==
  /\ \E ext \in LoadModelOutcomes :
       /\ snn' = IF ext = "ok"
                 THEN <<[origin |-> "load_model", outputs |-> <<>>]>>
                 ELSE snn
       /\ last_call' = Call("load", "", LoadResult(ext), ext)
  /\ tick' = 1 - tick
  /\ UNCHANGED <<_spiking_layers, _input_images, _binary_activation,
                 parameter_map, count, copies, last_added, bias, b0,
                 compiles, rescales>>
  /\ UNCHANGED <<cfgvars, simvars, est_log>>

BuildInit ==
  /\ _spiking_layers = <<>>
  /\ _input_images = None
  /\ _binary_activation = None
  /\ snn = None
  /\ parameter_map = {}
  /\ count = 0
  /\ copies = <<>>
  /\ last_call = Call("__init__", "", "ok", "")
  /\ last_added = ""
  /\ tick = 0
  /\ bias = 0
  /\ b0 = None
  /\ compiles = 0
  /\ rescales = 0

\* ------------------------------------------------------------ specification
\* Options every input mode reads.
CommonCfg ==
  /\ _dt \in {1, 2}
  /\ _num_timesteps \in 1..MaxSteps
  /\ _detector \in BOOLEAN
  /\ _is_early_stopping \in BOOLEAN
  /\ log_keys \in RequestedSets

\* Direct (constant current) and event-replay input.  Options that the
\* chosen input mode never reads are held at one value.
CfgInit ==
  /\ CommonCfg
  /\ input_mode \in {"direct", "aedat"}
  /\ x_b_l \in Inputs
  /\ max_num_input_spikes \in {Unset} \cup {<<b>> : b \in 0..(MaxBudget - 1)}
  /\ reset_policy \in ResetPolicies
  /\ reset_policy # RBS => max_num_input_spikes = <<0>>
  /\ _num_poisson_events_per_sample = -1
  /\ rescale_fac = 1
  /\ bias_relaxation = FALSE
  /\ parsed_bias = 3
  /\ input_mode = "aedat" =>
       /\ max_num_input_spikes = <<0>> /\ reset_policy = RBS
       /\ x_b_l = Zeros

\* Poisson input, classification only, all buffers requested.
PoissonCfgInit ==
  /\ _dt = 1
  /\ _num_timesteps \in 1..MaxSteps
  /\ _detector = FALSE
  /\ _is_early_stopping \in BOOLEAN
  /\ log_keys = Buffers
  /\ input_mode = "poisson"
  /\ x_b_l \in Inputs
  /\ max_num_input_spikes = <<0>>
  /\ reset_policy = RBS
  /\ _num_poisson_events_per_sample \in -1..MaxBudget
  /\ rescale_fac \in {1, 2}
  /\ bias_relaxation = FALSE
  /\ parsed_bias = 3

\* snn.layers: the input layer, a spiking layer that tracks time, and a
\* layer without a time attribute (get_time() is None).
InitialLayerTimes == <<None, <<0>>, None>>

SimInit ==
  /\ pc = "idle"
  /\ input_b_l = Unbound
  /\ num_timesteps = 0
  /\ x_accum = Unbound
  /\ t = 0
  /\ sim_step_int = 0
  /\ output_b_l_t = Unbound
  /\ output_b_bb_t = Unbound
  /\ _input_spikecount = 0
  /\ time2output = 0
  /\ bb_spike_rate_b = Unbound
  /\ clean_guesses_b = Unbound
  /\ buffers = InitLogVars(log_keys)
  /\ time = 0
  /\ n_forward = 0
  /\ remaining_events = 0
  /\ ret = Unbound
  /\ raised = ""
  /\ out_spikes_t = <<>>
  /\ layer_time = InitialLayerTimes
  /\ seen_times = <<>>
  /\ warned = FALSE
  /\ calls = 0
  /\ prev_spikecount = 0
  /\ BuildInit

vars == <<cfgvars, simvars, est_log, buildvars>>

Init == CfgInit /\ SimInit /\ est_log = {}

Next == SimulateBegin \/ EstIter \/ SimStep \/ Finalize

Spec == Init /\ [][Next]_vars

\* simulate with Poisson input (the estimator returns at once there).
PoissonInit == PoissonCfgInit /\ SimInit /\ est_log = {}

PoissonNext == SimulateBegin \/ SimStep \/ Finalize

SpecPoisson == PoissonInit /\ [][PoissonNext]_vars

\* simulate in each of the three input modes, classification only, no
\* buffer requested, the estimator switched off.
ModesInit ==
  /\ _dt = 1
  /\ _num_timesteps \in 1..MaxSteps
  /\ _detector = FALSE
  /\ _is_early_stopping \in BOOLEAN
  /\ log_keys = {}
  /\ input_mode \in InputModes
  /\ x_b_l \in (IF input_mode = "aedat" THEN {Zeros} ELSE Inputs)
  /\ max_num_input_spikes = Unset
  /\ reset_policy = RBS
  /\ _num_poisson_events_per_sample \in
       (IF input_mode = "poisson" THEN -1..MaxBudget ELSE {-1})
  /\ rescale_fac = 1
  /\ bias_relaxation = FALSE
  /\ parsed_bias = 3
  /\ SimInit
  /\ est_log = {}

SpecModes == ModesInit /\ [][PoissonNext]_vars

\* simulate with every subset of the instrumentation buffers requested, on
\* constant and on event input.
LogInit ==
  /\ _dt = 1
  /\ _num_timesteps \in 1..(MaxSteps - 1)
  /\ _detector = FALSE
  /\ _is_early_stopping \in BOOLEAN
  /\ log_keys \in SUBSET Buffers
  /\ input_mode \in {"direct", "aedat"}
  /\ x_b_l = (IF input_mode = "aedat" THEN Zeros ELSE Spread(3, -1))
  /\ max_num_input_spikes = Unset
  /\ reset_policy = RBS
  /\ _num_poisson_events_per_sample = -1
  /\ rescale_fac = 1
  /\ bias_relaxation = FALSE
  /\ parsed_bias = 3
  /\ SimInit
  /\ est_log = {}

SpecLog == LogInit /\ [][PoissonNext]_vars

\* Several simulate calls on one object, with Poisson input under a budget.
CallsInit ==
  /\ _dt = 1
  /\ _num_timesteps \in 1..(MaxSteps - 1)
  /\ _detector \in BOOLEAN
  /\ _is_early_stopping = FALSE
  /\ log_keys = {}
  /\ input_mode = "poisson"
  /\ x_b_l \in Inputs
  /\ max_num_input_spikes = Unset
  /\ reset_policy = RBS
  /\ _num_poisson_events_per_sample \in 1..MaxBudget
  /\ rescale_fac = 1
  /\ bias_relaxation = FALSE
  /\ parsed_bias = 3
  /\ SimInit
  /\ est_log = {}

CallsNext == SimulateBegin \/ SimulateAgain \/ SimStep \/ Finalize

SpecCalls == CallsInit /\ [][CallsNext]_vars

\* Building, compiling and loading one SNN object, before any simulation.
\* The configuration is not read there and is held at one value.
BuildCfg ==
  /\ _dt = 1
  /\ _num_timesteps = 1
  /\ _detector = FALSE
  /\ _is_early_stopping = FALSE
  /\ log_keys = {}
  /\ input_mode = "direct"
  /\ x_b_l = Zeros
  /\ max_num_input_spikes = Unset
  /\ reset_policy = RBS
  /\ _num_poisson_events_per_sample = -1
  /\ rescale_fac = 1
  /\ bias_relaxation = FALSE
  /\ parsed_bias = 3

InitBuild == BuildCfg /\ SimInit /\ est_log = {}

NextBuild == add_input_layer \/ add_layer \/ compile \/ load

SpecBuild == InitBuild /\ [][NextBuild]_vars

\* compile and compile again on an object whose graph has been built from
\* every layer of the parsed model that has a spiking class.
BuiltLayers ==
  << [name |-> "input", activation_str |-> "None", inbound |-> <<>>],
     [name |-> "0Conv2D", activation_str |-> "binary_tanh",
      inbound |-> <<"input">>],
     [name |-> "1Conv2D", activation_str |-> "relu",
      inbound |-> <<"0Conv2D">>],
     [name |-> "2MaxPooling2D", activation_str |-> "binary_tanh",
      inbound |-> <<"1Conv2D">>],
     [name |-> "3MaxPooling2D", activation_str |-> "None",
      inbound |-> <<"0Conv2D">>],
     [name |-> "4Concatenate", activation_str |-> "None",
      inbound |-> <<"2MaxPooling2D", "3MaxPooling2D">>],
     [name |-> "class_label", activation_str |-> "softmax",
      inbound |-> <<"4Concatenate">>],
     [name |-> "bounding_box", activation_str |-> "linear",
      inbound |-> <<"4Concatenate">>] >>

InitCompile ==
  /\ _dt \in {1, 2}
  /\ _num_timesteps = 1
  /\ _detector = FALSE
  /\ _is_early_stopping = FALSE
  /\ log_keys = {}
  /\ input_mode = "direct"
  /\ x_b_l = Zeros
  /\ max_num_input_spikes = Unset
  /\ reset_policy = RBS
  /\ _num_poisson_events_per_sample = -1
  /\ rescale_fac = 1
  /\ bias_relaxation \in BOOLEAN
  /\ parsed_bias \in {-1, 3}
  /\ pc = "idle"
  /\ input_b_l = Unbound
  /\ num_timesteps = 0
  /\ x_accum = Unbound
  /\ t = 0
  /\ sim_step_int = 0
  /\ output_b_l_t = Unbound
  /\ output_b_bb_t = Unbound
  /\ _input_spikecount = 0
  /\ time2output = 0
  /\ bb_spike_rate_b = Unbound
  /\ clean_guesses_b = Unbound
  /\ buffers = [b \in Buffers |-> None]
  /\ time = 0
  /\ n_forward = 0
  /\ remaining_events = 0
  /\ ret = Unbound
  /\ raised = ""
  /\ out_spikes_t = <<>>
  /\ layer_time = InitialLayerTimes
  /\ seen_times = <<>>
  /\ warned = FALSE
  /\ calls = 0
  /\ prev_spikecount = 0
  /\ est_log = {}
  /\ _spiking_layers = BuiltLayers
  /\ _input_images = <<"Input">>
  /\ _binary_activation = None
  /\ snn = None
  /\ parameter_map = {}
  /\ count = 0
  /\ copies = <<>>
  /\ last_call = Call("add_layer", "bounding_box", "ok", "")
  /\ last_added = "bounding_box"
  /\ tick = 0
  /\ bias = 0
  /\ b0 = None
  /\ compiles = 0
  /\ rescales = 0

NextCompile == compile \/ recompile

SpecCompile == InitCompile /\ [][NextCompile]_vars

\* ------------------------------- _get_timestep_at_spikecount on its own
\* The estimator called for one input under several budgets: the option
\* max_num_input_spikes is rewritten between the calls, everything else
\* stays.
MaxEstCalls == 2
EstXPairs == XPairs \cup {<<3, 3>>, <<1, -1>>, <<-1, 3>>}

EstInit ==
  /\ _dt \in {1, 2}
  /\ _num_timesteps \in 1..(MaxSteps + 2)
  /\ _detector = FALSE
  /\ _is_early_stopping = FALSE
  /\ input_mode \in InputModes
  /\ x_b_l \in {Spread(p[1], p[2]) : p \in EstXPairs}
  /\ log_keys = {}
  /\ max_num_input_spikes \in {Unset} \cup {<<b>> : b \in -1..MaxBudget}
  /\ reset_policy \in ResetPolicies
  /\ _num_poisson_events_per_sample = -1
  /\ rescale_fac = 1
  /\ bias_relaxation = FALSE
  /\ parsed_bias = 3
  /\ SimInit
  /\ est_log = {}

\* x as simulate passes it: kwargs['x_b_l'] * self._dt
EstArg == [i \in Batch |-> x_b_l[i] * _dt]

Logged(b) == \E e \in est_log : e[1] = b

GetTimestepBegin ==
  /\ pc = "idle"
  /\ ~Logged(max_num_input_spikes)
  /\ IF EstimatorApplies
     THEN /\ pc' = "est_loop"
          /\ x_accum' = Zeros
          /\ t' = 0
          /\ est_log' = est_log
     ELSE /\ est_log' = est_log \cup {<<max_num_input_spikes, _num_timesteps>>}
          /\ UNCHANGED <<pc, x_accum, t>>
  /\ UNCHANGED <<input_b_l, num_timesteps, sim_step_int, output_b_l_t,
                 output_b_bb_t, _input_spikecount, time2output,
                 bb_spike_rate_b, clean_guesses_b, buffers, time, n_forward,
                 remaining_events, ret, raised, out_spikes_t, layer_time,
                 seen_times, warned, calls, prev_spikecount>>
  /\ UNCHANGED cfgvars
  /\ UNCHANGED buildvars

GetTimestepIter ==
  /\ pc = "est_loop"
  /\ t < EstCap
  /\ x_accum' = XAccumNext(x_accum, EstArg)
  /\ IF BudgetExceeded(x_accum')
     THEN /\ est_log' = est_log \cup
               {<<max_num_input_spikes, EstReturnValue(t, _num_timesteps)>>}
          /\ pc' = "idle"
          /\ t' = t
     ELSE /\ t' = t + 1
          /\ UNCHANGED <<pc, est_log>>
  /\ UNCHANGED <<input_b_l, num_timesteps, sim_step_int, output_b_l_t,
                 output_b_bb_t, _input_spikecount, time2output,
                 bb_spike_rate_b, clean_guesses_b, buffers, time, n_forward,
                 remaining_events, ret, raised, out_spikes_t, layer_time,
                 seen_times, warned, calls, prev_spikecount>>
  /\ UNCHANGED cfgvars
  /\ UNCHANGED buildvars

\* config.set('input', 'max_num_input_spikes', b) between two calls
SetMaxSpikes ==
  /\ pc = "idle"
  /\ Logged(max_num_input_spikes)
  /\ Cardinality(est_log) < MaxEstCalls
  /\ \E b \in -1..MaxBudget :
       /\ ~Logged(<<b>>)
       /\ max_num_input_spikes' = <<b>>
  /\ UNCHANGED <<_dt, _num_timesteps, _detector, _is_early_stopping,
                 input_mode, reset_policy, _num_poisson_events_per_sample,
                 rescale_fac, log_keys, x_b_l, bias_relaxation, parsed_bias>>
  /\ UNCHANGED simvars
  /\ UNCHANGED est_log
  /\ UNCHANGED buildvars

EstNext == GetTimestepBegin \/ GetTimestepIter \/ SetMaxSpikes

SpecEst == EstInit /\ [][EstNext]_vars

\* ====================================================== checked properties
Returned == pc = "Done"
RetCls == ret[1].cls
RetBox == ret[1].bb[1]

\* Steps (1-based) at which some bounding-box output was recorded as a spike.
BoxSteps ==
  {s + 1 : s \in {u \in Steps : \E i \in Batch, k \in Boxes :
                                   output_b_bb_t[i][k][u] = 1}}
FirstBoxStep == CHOOSE k \in BoxSteps : \A j \in BoxSteps : k <= j

\* C1: with detection enabled and the first nonzero bounding-box spike sum
\* at step k of a run of N steps, the returned bounding-box rate is the
\* per-sample spike sum divided by N - k + 1, for every k in 1..N.
C1_RateDivisor ==
  (Returned /\ _detector /\ BoxSteps # {}) =>
     /\ RetBox.sums = SumT(output_b_bb_t)
     /\ RetBox.div = num_timesteps - FirstBoxStep + 1

\* C3: _get_timestep_at_spikecount is monotone in the budget for a fixed
\* input and configuration, and never returns more than the configured
\* number of steps.
C3_EstimatorMonotone ==
  /\ \A e \in est_log : e[2] <= _num_timesteps
  /\ \A e1, e2 \in est_log :
       (e1[1] # Unset /\ e2[1] # Unset /\ e1[1][1] <= e2[1][1])
          => e1[2] <= e2[2]

C3_Witness ==
  \E e1, e2 \in est_log :
     /\ e1[1] # Unset /\ e2[1] # Unset
     /\ e1[1][1] < e2[1][1]
     /\ e1[2] < e2[2]
     /\ e2[2] = _num_timesteps

\* C4: in Poisson mode with a budget >= 0, once the input-spike counter has
\* reached the budget, every later step of the call gets an all-zero input
\* and leaves the counter as it is.
C4_PoissonExhausted ==
  [][(/\ pc = "Stepping"
      /\ _poisson_input
      /\ _num_poisson_events_per_sample >= 0
      /\ _input_spikecount >= _num_poisson_events_per_sample)
       => (/\ input_b_l' = Zeros
           /\ _input_spikecount' = _input_spikecount)]_vars

C4_Witness ==
  /\ _poisson_input
  /\ x_b_l[1] > 0
  /\ _num_poisson_events_per_sample >= 1
  /\ _input_spikecount >= _num_poisson_events_per_sample
  /\ ~_is_early_stopping
  /\ n_forward >= 2
  /\ input_b_l = Zeros

\* Cumulative classification spikes of sample i, class c, over all steps.
ClassSum(i, c) ==
  Cardinality({s \in Steps : output_b_l_t[i][c][s] # 0})

\* C5: at every step the predicted label of a sample is -1 exactly when its
\* cumulative spike sum over all classes and steps is zero, and otherwise
\* the index of a class with the maximal cumulative count.
C5_UndecidedRule ==
  (n_forward > 0) =>
     \A i \in Batch :
        /\ (clean_guesses_b[i] = -1) <=> (\A c \in Classes : ClassSum(i, c) = 0)
        /\ (clean_guesses_b[i] # -1) =>
              /\ clean_guesses_b[i] \in Classes
              /\ \A c \in Classes :
                    ClassSum(i, c) <= ClassSum(i, clean_guesses_b[i])

C5_Witness ==
  /\ Returned
  /\ n_forward = num_timesteps
  /\ clean_guesses_b[1] \in Classes
  /\ clean_guesses_b[BatchSize] = -1

\* Number of forward passes up to step index s whose raw output for
\* sample i, class c was > 0.
SpikesUpTo(i, c, s) ==
  Cardinality({u \in 0..s : u < Len(out_spikes_t)
                            /\ out_spikes_t[u + 1][i][c] > 0})

\* C6: the returned classification output has one column per configured
\* step, grows by 0 or 1 per step, counts the steps so far at which the
\* class output was > 0, and is constant from the step where stepping
\* stopped.
C6_CumulativeOutput ==
  Returned =>
     \A i \in Batch, c \in Classes :
        /\ DOMAIN RetCls[i][c] = Steps
        /\ \A s \in Steps :
              /\ RetCls[i][c][s] = SpikesUpTo(i, c, s)
              /\ RetCls[i][c][s] - (IF s = 0 THEN 0 ELSE RetCls[i][c][s - 1])
                    \in {0, 1}
              /\ s >= n_forward =>
                    RetCls[i][c][s] = RetCls[i][c][_num_timesteps - 1]

C6_Witness ==
  /\ Returned
  /\ 2 <= n_forward /\ n_forward < _num_timesteps
  /\ \E i \in Batch, c \in Classes : RetCls[i][c][_num_timesteps - 1] = 2

\* C7: with early stopping on, a step whose input is all zero ends stepping
\* before the forward pass and writes no buffer, and nothing runs after
\* stepping has ended; forward passes never outnumber the effective step
\* budget; with early stopping off an all-zero input is stepped as usual.
C7_EarlyStop ==
  [][/\ (pc = "Stepping" /\ _is_early_stopping
         /\ CountNonzero(input_b_l') = 0)
          => /\ pc' = "Finalizing"
             /\ UNCHANGED <<n_forward, output_b_l_t, output_b_bb_t, buffers,
                            out_spikes_t>>
     /\ (pc = "Stepping" /\ ~_is_early_stopping)
          => /\ n_forward' = n_forward + 1
             /\ sim_step_int' = sim_step_int + 1
     /\ (pc \in {"Finalizing", "Done", "Error"})
          => UNCHANGED <<n_forward, output_b_l_t, output_b_bb_t, buffers,
                         out_spikes_t>>
     /\ (pc' \in {"Stepping", "Finalizing"}) => n_forward' <= num_timesteps'
    ]_vars

C7_Witness ==
  /\ pc = "Finalizing"
  /\ _is_early_stopping
  /\ input_b_l = Zeros
  /\ 1 <= n_forward /\ n_forward < num_timesteps
  /\ log_keys = Buffers
  /\ \A b \in Buffers : buffers[b][1] = 0..(n_forward - 1)


\* Outcome of the latest call, seen from the state after it.
Called(op) == last_call'.op = op /\ tick' # tick
LayerNamed(name) == CHOOSE l \in Layers : l.name = name
IsBinaryConv(name) ==
  /\ name \in {l.name : l \in Layers}
  /\ NameHasConv(name)
  /\ IsBinary(LayerNamed(name).activation)

\* C2: compile passes its assertion only if every canonical name of the
\* parameter map was copied into the spiking graph exactly once, and it
\* aborts with the assertion whenever an entry of the map is left
\* unconsumed.
C2_TransferComplete ==
  (last_call.op = "compile" /\ last_call.result \in {"ok", "AssertionError"})
    => /\ last_call.result = "ok" =>
             \A n \in parameter_map : copies[n] = 1
       /\ (\E n \in parameter_map : copies[n] = 0) =>
             last_call.result = "AssertionError"

\* C8: a pooling layer gets the binary activation as its override exactly
\* when the layer added right before it (by the latest successful
\* add_layer call) is a convolution with a binary activation, and the
\* pending hint is empty afterwards.
C8_HintOnlyNextPool ==
  [][(Called("add_layer") /\ last_call'.result = "ok"
      /\ NameHasMaxPool(last_call'.layer))
       => /\ IsBinary(Lookup(_spiking_layers', last_call'.layer).activation_str)
               <=> IsBinaryConv(last_added)
          /\ _binary_activation' = None]_vars

\* Every registered layer has its inbound layers in the registry.
InboundClosed(reg) ==
  \A k \in DOMAIN reg : Range(reg[k].inbound) \subseteq Names(reg)

EntriesNamed(reg, name) == {k \in DOMAIN reg : reg[k].name = name}

\* C9 as stated: a failing add_layer changes neither the registry nor the
\* hint, and a successful one adds exactly one new entry.
C9_OneNewEntry ==
  [][Called("add_layer") =>
       LET layer == LayerNamed(last_call'.layer)
       IN /\ (\/ ~HasSpikeClass(layer.type)
              \/ ~InboundRegistered(layer, _spiking_layers)) =>
               /\ last_call'.result # "ok"
               /\ UNCHANGED <<_spiking_layers, _binary_activation>>
          /\ last_call'.result = "ok" =>
               /\ InboundRegistered(layer, _spiking_layers)
               /\ layer.name \notin Names(_spiking_layers)
               /\ Len(_spiking_layers') = Len(_spiking_layers) + 1
          /\ InboundClosed(_spiking_layers')]_vars

\* C9 amended: a successful add_layer leaves exactly one entry under the
\* layer's name, a new one if the name was free and the replaced one if it
\* was taken; all other entries stay; failing calls change nothing.
C9_OneEntryPerName ==
  [][Called("add_layer") =>
       LET layer == LayerNamed(last_call'.layer)
           taken == layer.name \in Names(_spiking_layers)
       IN /\ (\/ ~HasSpikeClass(layer.type)
              \/ ~InboundRegistered(layer, _spiking_layers)) =>
               /\ last_call'.result # "ok"
               /\ UNCHANGED <<_spiking_layers, _binary_activation>>
          /\ last_call'.result = "ok" =>
               /\ InboundRegistered(layer, _spiking_layers)
               /\ Cardinality(EntriesNamed(_spiking_layers', layer.name)) = 1
               /\ Len(_spiking_layers') =
                    Len(_spiking_layers) + (IF taken THEN 0 ELSE 1)
               /\ \A k \in DOMAIN _spiking_layers :
                     _spiking_layers[k].name # layer.name =>
                        _spiking_layers'[k] = _spiking_layers[k]
          /\ InboundClosed(_spiking_layers')]_vars

C9_Witness ==
  /\ last_call.op = "add_layer"
  /\ last_call.result = "KeyError"
  /\ _binary_activation # None
  /\ Len(_spiking_layers) >= 2

\* C10 as stated: every load ends in NotImplementedError and installs
\* nothing.
C10_LoadNeverCompletes ==
  last_call.op = "load" =>
     /\ last_call.result = "NotImplementedError"
     /\ \A k \in DOMAIN snn : snn[k].origin # "load_model"

\* C11: _get_timestep_at_spikecount returns the configured number of steps
\* at once, without accumulating the input, whenever the budget option is
\* unset, or the input is Poisson or event-replay, or the reset policy is
\* not 'Reset by subtraction'; a call that returns fewer steps is a call in
\* direct mode under 'Reset by subtraction' with a budget set.
C11_EstimatorNoOp ==
  [][/\ (/\ pc = "idle"
         /\ ~Logged(max_num_input_spikes)
         /\ (\/ max_num_input_spikes = Unset
             \/ input_mode \in {"poisson", "aedat"}
             \/ reset_policy # RBS))
          => /\ est_log' =
                  est_log \cup {<<max_num_input_spikes, _num_timesteps>>}
             /\ pc' = "idle"
             /\ UNCHANGED <<x_accum, t>>
     /\ \A e \in est_log' :
          e[2] < _num_timesteps =>
             /\ e[1] # Unset
             /\ input_mode = "direct"
             /\ reset_policy = RBS
    ]_vars

\* An input that exhausts a budget of 0 in the first iteration is given the
\* full number of steps outside direct mode.
C11_Witness ==
  /\ input_mode # "direct"
  /\ reset_policy = RBS
  /\ x_b_l = Spread(3, 3)
  /\ _num_timesteps >= 2
  /\ <<(<<0>>), _num_timesteps>> \in est_log

\* C12: after a compile that completes, the bias of a layer whose trained
\* bias B was transferred equals B * dt, however often compile has been
\* called; with bias_relaxation on, b0 holds the same value, and with it off
\* b0 is never written.
C12_BiasRescaledOnce ==
  [][/\ (/\ Called("compile")
         /\ last_call'.result = "ok"
         /\ BiasName \in parameter_map'
         /\ copies'[BiasName] >= 1)
          => /\ bias' = parsed_bias * _dt
             /\ bias_relaxation => b0' = <<parsed_bias * _dt>>
     /\ ~bias_relaxation => b0' = b0 /\ b0 = None
    ]_vars

C12_Witness ==
  /\ compiles = 2
  /\ rescales = 2
  /\ last_call.op = "compile" /\ last_call.result = "ok"
  /\ _dt = 2
  /\ bias_relaxation
  /\ BiasName \in parameter_map /\ copies[BiasName] = 1
  /\ bias = parsed_bias * 2
  /\ b0 = <<bias>>

\* C13: with detection enabled every simulate call ends in Done and returns
\* the cumulative classification output together with a bounding-box rate,
\* also when no forward pass was executed; it never ends in an error.
C13_DetectorReturns ==
  (_detector /\ pc \in {"Done", "Error"}) =>
     /\ pc = "Done"
     /\ raised = ""
     /\ ret # Unbound
     /\ ret[1].bb # Unbound

\* The loop, continued from accumulator acc with input x, leaves through
\* its return within k more iterations.
RECURSIVE ReturnsWithin(_, _, _)
ReturnsWithin(acc, x, k) ==
  /\ k > 0
  /\ \/ BudgetExceeded(XAccumNext(acc, x))
     \/ ReturnsWithin(XAccumNext(acc, x), x, k - 1)

\* C14: when the estimator is applicable its loop terminates and returns a
\* step count for every input and budget: from every state of the loop the
\* return is reached within the iterations that suffice for any input that
\* can reach it at all.
C14_EstimatorTerminates ==
  pc = "est_loop" => ReturnsWithin(x_accum, EstArg, EstCap - t)

\* The ideal input-spike count after s steps of the input simulate passes
\* to the estimator: the sum over all elements of floor(s * x).
CountAfter(s) == SumOver([i \in Batch |-> (s * EstArg[i]) \div Denom], Batch)

\* C15: when the estimator is applicable with a budget >= 0 and returns T,
\* the ideal input-spike count after s steps is at most budget * batch_size
\* for every s in 0..T.
C15_CountWithinBudget ==
  \A e \in est_log :
     (/\ input_mode = "direct"
      /\ reset_policy = RBS
      /\ e[1] # Unset
      /\ e[1][1] >= 0)
       => \A s \in 0..e[2] : CountAfter(s) <= e[1][1] * BatchSize

\* A call that returns fewer steps than configured, and at least one, with
\* the count of the next step above the budget.
C15_Witness ==
  \E e \in est_log :
     /\ input_mode = "direct"
     /\ reset_policy = RBS
     /\ e[1] # Unset
     /\ e[1][1] >= 1
     /\ 1 <= e[2] /\ e[2] < _num_timesteps
     /\ CountAfter(e[2]) >= 1
     /\ CountAfter(e[2] + 1) > e[1][1] * BatchSize

\* Layers after the input layer that track time, and the other layers.
TimedLayers == {k \in DOMAIN InitialLayerTimes : k > 1 /\ InitialLayerTimes[k] # None}
UntimedLayers == DOMAIN InitialLayerTimes \ TimedLayers

\* C16: step i (1-based) of simulate sets the time of every layer that
\* tracks time to i * dt before the step's input is obtained (so also in a
\* step that stops early) and before its forward pass; the i-th forward
\* pass runs at time i * dt, so these times increase strictly; the input
\* layer and layers that track no time are never given a time.
C16_TimeAdvances ==
  [][/\ pc = "Stepping" =>
          \A k \in TimedLayers : layer_time'[k] = <<(sim_step_int + 1) * _dt>>
     /\ \A k \in DOMAIN seen_times' : seen_times'[k] = k * _dt
     /\ \A j, k \in DOMAIN seen_times' :
          j < k => seen_times'[j] < seen_times'[k]
     /\ \A k \in UntimedLayers : layer_time'[k] = None
    ]_vars

\* Two forward passes, then a third step that set the time and stopped
\* before its forward pass.
C16_Witness ==
  /\ pc = "Finalizing"
  /\ _dt = 2
  /\ seen_times = <<2, 4>>
  /\ n_forward = 2
  /\ \A k \in TimedLayers : layer_time[k] = <<6>>

\* What is left of the input when a call ends: the events the source
\* reports as unconsumed, or the Poisson budget minus the counter.
Leftover ==
  IF _is_aedat_input THEN remaining_events
  ELSE _num_poisson_events_per_sample - _input_spikecount

\* C17 as stated: the warning is issued exactly when the remaining amount
\* is nonzero in event-replay or Poisson mode, never in direct mode, and
\* the returned value is the cumulative output whether or not it is issued.
C17_WarnNonzero ==
  Returned =>
     /\ warned <=> (input_mode # "direct" /\ Leftover # 0)
     /\ RetCls = CumSum(output_b_l_t)

\* C17 amended: the warning is issued exactly when the remaining amount is
\* greater than zero in event-replay or Poisson mode, never in direct mode,
\* and the returned value is the cumulative output whether or not it is
\* issued.
C17_WarnPositive ==
  Returned =>
     /\ warned <=> (input_mode # "direct" /\ Leftover > 0)
     /\ RetCls = CumSum(output_b_l_t)

\* A Poisson call that ends with part of its budget unused and warns.
C17_Witness ==
  /\ Returned
  /\ _poisson_input
  /\ _num_poisson_events_per_sample = 2
  /\ _input_spikecount = 1
  /\ n_forward >= 1
  /\ warned

\* C18: every simulate call on an object starts its first step with the
\* input-spike counter at zero and the detection divisor unlatched (equal
\* to the call's step budget), whatever the call before left behind; so
\* under a Poisson budget the first step of every call draws its input
\* from the encoder instead of getting the all-zero frame of an exhausted
\* budget.
C18_CountersResetPerCall ==
  [][/\ (pc \in {"idle", "Done", "Error"} /\ pc' = "Stepping")
          => /\ _input_spikecount' = 0
             /\ time2output' = num_timesteps'
             /\ sim_step_int' = 0
     /\ (/\ pc = "Stepping" /\ sim_step_int = 0
         /\ _poisson_input /\ _num_poisson_events_per_sample > 0)
          => \E sp \in PoissonSpikes(x_b_l) :
                /\ input_b_l' =
                     [i \in Batch |->
                        sp[i] * Max({x_b_l[j] : j \in Batch}) * Sign(x_b_l[i])]
                /\ _input_spikecount' = CountNonzero(sp) \div BatchSize
    ]_vars

\* A second call whose first step got spikes although the call before it
\* had used up the budget.
C18_Witness ==
  /\ calls = 2
  /\ prev_spikecount >= _num_poisson_events_per_sample
  /\ sim_step_int = 1
  /\ input_b_l # Zeros
  /\ _input_spikecount = 1

\* C19: whatever subset of the five instrumentation buffers was requested, a
\* step of simulate raises no error, gives the slot of that step to each
\* requested buffer when it runs a forward pass, leaves each requested buffer
\* as it was when it breaks off early, and keeps every buffer that was not
\* requested absent; and the classification output that is returned is the
\* running spike count of the forward passes alone, so it is the same for
\* every subset, the full one included.
C19_OnlyRequestedWritten ==
  /\ [][pc = "Stepping" =>
          /\ raised' = "" /\ pc' # "Error"
          /\ \A b \in Buffers :
                IF b \in log_keys
                THEN buffers'[b] =
                       (IF n_forward' > n_forward
                        THEN <<buffers[b][1] \cup {sim_step_int}>>
                        ELSE buffers[b])
                ELSE buffers[b] = None /\ buffers'[b] = None
       ]_vars
  /\ [](Returned =>
          \A i \in Batch, c \in Classes, s \in Steps :
             RetCls[i][c][s] = SpikesUpTo(i, c, s))

\* A finished two-step run with two of the five buffers requested: both
\* hold both steps, a buffer that was not requested is absent, and some
\* class has spiked.
C19_Witness ==
  /\ Returned
  /\ log_keys = {"mem_n_b_l_t", "input_b_l_t"}
  /\ n_forward = 2
  /\ buffers["mem_n_b_l_t"] = <<{0, 1}>>
  /\ buffers["input_b_l_t"] = <<{0, 1}>>
  /\ buffers["spiketrains_n_b_l_t"] = None
  /\ buffers["neuron_operations_b_t"] = None
  /\ \E i \in Batch, c \in Classes : RetCls[i][c][_num_timesteps - 1] > 0
====
